---------------------------- MODULE Spec2Model ----------------------------
(***************************************************************************)
(* The disclosure-delay engine of password-time-vault: one vault, observed *)
(* by several sessions, and the store that holds its durable record.       *)
(*                                                                         *)
(* The repository holds three builds of the same two components:           *)
(*   "local"  VaultCard.tsx under SimpleVault (unnamed/part_000): the      *)
(*            record lives in localStorage and is written synchronously;   *)
(*   "props"  VaultCard.tsx under the Dashboard of unnamed/part_002 (and   *)
(*            part_001, which differs only in how errors are reported):    *)
(*            the card calls onUpdate/onDelete, the Dashboard awaits the   *)
(*            store and then replaces its list;                            *)
(*   "direct" the VaultCard of unnamed/part_003 under pages/Dashboard.tsx: *)
(*            the card writes the store itself, the Dashboard refetches on *)
(*            every change notification.                                   *)
(* All sessions of one behaviour run the same build, chosen in Init.       *)
(*                                                                         *)
(* Time is counted in clock units of 1/TicksPerSecond second, so that the  *)
(* Math.floor of the countdown is a real rounding.  A timestamp is << >>   *)
(* (null) or <<t>>.  A React effect is run in the same step as the render  *)
(* that triggers it.                                                       *)
(***************************************************************************)
EXTENDS Integers, Sequences, FiniteSets, TLC

Sessions == {"s1", "s2"}
Builds == {"local", "props", "direct"}

\* the vault's delay_seconds, fixed at creation
DelaySeconds == 1
\* clock units per second
TicksPerSecond == 1
\* the clock stops here
MaxTime == 3
\* requests one session may have outstanding at the store
MaxInFlight == 1
\* the longest delay_seconds a vault of the countdown cases is created with
MaxDelay == 5

VARIABLES
    build,          \* which build the sessions run
    now,            \* the wall clock, in clock units
    store,          \* the durable record (table row / localStorage entry)
    lvault,         \* per session: the `vault` prop of its card (its entry in `vaults`)
    timeRemaining,  \* per session: the card's timeRemaining state
    isReady,        \* per session: the card's isReady state (part_003 only)
    isRevealing,    \* per session: the card's isRevealing state (part_003 only)
    net,            \* store requests in flight and responses not yet handled
    notified,       \* per session: a change notification is waiting (Dashboard.tsx)
    cycle,          \* history: the store's current request cycle (read by no action)
    dialog,         \* per session: the Create Vault dialog (its fields and last toast)
    vaults,         \* per session: the Dashboard's `vaults` list, when several vaults matter
    password_vaults, \* the rows of the table (the saved list in localStorage)
    user            \* per session: the id of the signed-in user (useAuth().user.id)

vars == <<build, now, store, lvault, timeRemaining, isReady, isRevealing,
          net, notified, cycle, dialog, vaults, password_vaults, user>>

card == <<timeRemaining, isReady, isRevealing>>

-----------------------------------------------------------------------------
\* Values

Null == << >>
Stamp(t) == <<t>>
At(x) == x[1]

Max(a, b) == IF a >= b THEN a ELSE b

\* a text is the sequence of its characters
SomeTitle == <<"a">>
SomePassword == <<"p">>

\* interface Vault: title, encrypted_password and delay_seconds are fixed at
\* creation, the two timestamps are what this engine moves
VaultOf(title, password, delay, rq, rv) ==
    [present |-> TRUE, title |-> title, encrypted_password |-> password,
     delay_seconds |-> delay, reveal_requested_at |-> rq, revealed_at |-> rv]

\* the vault the lifecycle is followed on
Vault(rq, rv) == VaultOf(SomeTitle, SomePassword, DelaySeconds, rq, rv)

NoVault ==
    [present |-> FALSE, title |-> << >>, encrypted_password |-> << >>,
     delay_seconds |-> 0, reveal_requested_at |-> Null, revealed_at |-> Null]

Revealing(v) == v.present /\ v.reveal_requested_at # Null /\ v.revealed_at = Null

\* the user_id column of the vault's row: the id of the user who created it
\* (user_id: user!.id in the insert); no update names this column
user_id == "u1"

\* a store request: `cols` are the columns an update sets
Op(s, kind, cols, rq, rv) ==
    [from |-> s, kind |-> kind, cols |-> cols, reveal_requested_at |-> rq,
     revealed_at |-> rv, phase |-> "sent", data |-> NoVault, before |-> "none",
     found |-> FALSE]

\* History of the durable record: `afterHide` says that a hide has been
\* applied to it, `requested` is then the stamp of the request that took it
\* out of Secured again.
cycleAfter(old, new) ==
    IF ~new.present THEN [afterHide |-> FALSE, requested |-> Null]
    ELSE IF new.reveal_requested_at = Null
    THEN IF old.present /\ old.reveal_requested_at # Null
         THEN [afterHide |-> TRUE, requested |-> Null]
         ELSE cycle
    ELSE IF cycle.afterHide /\ old.present /\ old.reveal_requested_at = Null
    THEN [cycle EXCEPT !.requested = new.reveal_requested_at]
    ELSE cycle

OpsOf(s) == {op \in net : op.from = s}
CanSend(s) == Cardinality(OpsOf(s)) < MaxInFlight

\* the Create Vault dialog as it is before anything is typed: useState('') for
\* title and password, '5' minutes for the delay
NoDialog ==
    [title |-> << >>, password |-> << >>, delayValue |-> 5, delayType |-> "minutes",
     open |-> FALSE, toast |-> "none"]

-----------------------------------------------------------------------------
\* The countdown

\* a countdown that is not clamped at zero
remainingUnclamped(v, t) ==
    v.delay_seconds - ((t - At(v.reveal_requested_at)) \div TicksPerSecond)

\* elapsed = Math.floor((now - requestedAt) / 1000);
\* remaining = Math.max(0, delay_seconds - elapsed)
remaining(v, t) ==
    Max(0, v.delay_seconds - ((t - At(v.reveal_requested_at)) \div TicksPerSecond))

\* VaultCard.tsx getStatus
getStatus(v, tr) ==
    IF v.reveal_requested_at = Null THEN "waiting"
    ELSE IF v.revealed_at # Null \/ (tr # Null /\ At(tr) <= 0) THEN "revealed"
    ELSE "counting"

\* part_003 getStatus
getStatusDirect(v, ready) ==
    IF v.revealed_at # Null \/ ready THEN "Ready"
    ELSE IF v.reveal_requested_at # Null THEN "Revealing"
    ELSE "Secured"

-----------------------------------------------------------------------------
\* State after construction: the vault exists, Secured, and every session
\* has loaded it.

Init ==
    /\ build \in Builds
    /\ now = 0
    /\ store = Vault(Null, Null)
    /\ lvault = [s \in Sessions |-> Vault(Null, Null)]
    /\ timeRemaining = [s \in Sessions |-> Null]
    /\ isReady = [s \in Sessions |-> FALSE]
    /\ isRevealing = [s \in Sessions |-> FALSE]
    /\ net = {}
    /\ notified = [s \in Sessions |-> FALSE]
    /\ cycle = [afterHide |-> FALSE, requested |-> Null]
    /\ vaults = [s \in Sessions |-> << >>]
    /\ password_vaults = << >>
    /\ user = [s \in Sessions |-> user_id]
    /\ dialog = [s \in Sessions |-> NoDialog]

\* the Clock
Advance ==
    /\ now < MaxTime
    /\ now' = now + 1
    /\ UNCHANGED <<dialog, cycle, build, user, vaults, password_vaults, store, lvault, card, net, notified>>

-----------------------------------------------------------------------------
\* VaultCard.tsx (builds "local" and "props")

\* a countdown that starts again from the whole delay when the card is mounted
effectTimeFromMount(v, tr, t) ==
    IF Revealing(v) THEN Stamp(v.delay_seconds)
    ELSE IF v.revealed_at # Null THEN Stamp(0)
    ELSE tr

\* the useEffect body for a vault that is in the list: what it leaves in
\* timeRemaining
effectTime(v, tr, t) ==
    IF Revealing(v) THEN Stamp(remaining(v, t))
    ELSE IF v.revealed_at # Null THEN Stamp(0)
    ELSE tr

\* the write the effect's first updateCountdown() asks for, if any; the card
\* was rendered with vault v while its timeRemaining state was still tr
effectUpdates(s, v, tr, t) ==
    IF Revealing(v) /\ remaining(v, t) = 0
    THEN {[Op(s, "mark", {"reveal_requested_at", "revealed_at"},
              v.reveal_requested_at, Stamp(t))
             EXCEPT !.data = [v EXCEPT !.revealed_at = Stamp(t)],
                    !.before = getStatus(v, tr)]}
    ELSE {}

\* part_000: handleVaultUpdated replaces the entry and saveVaults writes the
\* list to localStorage and to the state in one step; the card's effect then
\* runs on the new vault.
handleVaultUpdatedLocal(s, v, tr) ==
    /\ store' = v
    /\ cycle' = cycleAfter(store, v)
    /\ lvault' = [lvault EXCEPT ![s] = v]
    /\ timeRemaining' = [timeRemaining EXCEPT ![s] = effectTime(v, tr, now)]
    /\ net' = net

\* part_002 (part_001): handleVaultUpdated, up to the await of the store;
\* `data` keeps the updatedVault argument for the continuation, `before` the
\* status the card showed when it made the call (history, read by no action)
handleVaultUpdated(s, kind, v, tr) ==
    /\ CanSend(s)
    /\ net' = net \cup {[Op(s, kind, {"reveal_requested_at", "revealed_at"},
                             v.reveal_requested_at, v.revealed_at)
                            EXCEPT !.data = v,
                                   !.before = getStatus(lvault[s], timeRemaining[s])]}
    /\ timeRemaining' = [timeRemaining EXCEPT ![s] = tr]
    /\ UNCHANGED <<store, lvault, cycle>>

\* the card's onUpdate prop
onUpdate(s, kind, v, tr) ==
    IF build = "local" THEN handleVaultUpdatedLocal(s, v, tr)
    ELSE handleVaultUpdated(s, kind, v, tr)

\* the interval callback of a card whose vault is Revealing
updateCountdown(s) ==
    LET v == lvault[s]
        left == remaining(v, now)
    IN  /\ build \in {"local", "props"}
        /\ Revealing(v)
        /\ IF left = 0 /\ v.revealed_at = Null
           THEN onUpdate(s, "mark", [v EXCEPT !.revealed_at = Stamp(now)], Stamp(left))
           ELSE /\ timeRemaining' = [timeRemaining EXCEPT ![s] = Stamp(left)]
                /\ UNCHANGED <<store, lvault, net, cycle>>
        /\ UNCHANGED <<dialog, build, user, vaults, password_vaults, now, isReady, isRevealing, notified>>

\* the Start Reveal button, shown while the status is 'waiting'
handleRevealRequest(s) ==
    LET v == lvault[s]
    IN  /\ build \in {"local", "props"}
        /\ v.present
        /\ getStatus(v, timeRemaining[s]) = "waiting"
        /\ IF v.reveal_requested_at = Null
           THEN onUpdate(s, "reveal", [v EXCEPT !.reveal_requested_at = Stamp(now)],
                         timeRemaining[s])
           ELSE UNCHANGED <<store, lvault, net, timeRemaining, cycle>>
        /\ UNCHANGED <<dialog, build, user, vaults, password_vaults, now, isReady, isRevealing, notified>>

\* a hide that forgets the request and keeps the reveal
hiddenKeepsRevealedAt(v) == [v EXCEPT !.reveal_requested_at = Null]

\* a hide that forgets the reveal and keeps the request
hiddenKeepsRequest(v) == [v EXCEPT !.revealed_at = Null]

\* a hide that also resets the delay
hiddenResetsDelay(v) ==
    [v EXCEPT !.reveal_requested_at = Null, !.revealed_at = Null, !.delay_seconds = 0]

\* the record handleHidePassword asks for
hidden(v) == [v EXCEPT !.reveal_requested_at = Null, !.revealed_at = Null]

\* the Hide Password button, shown while the status is 'revealed'
handleHidePassword(s) ==
    LET v == lvault[s]
    IN  /\ build \in {"local", "props"}
        /\ v.present
        /\ getStatus(v, timeRemaining[s]) = "revealed"
        /\ onUpdate(s, "hide", hidden(v), Null)
        /\ UNCHANGED <<dialog, build, user, vaults, password_vaults, now, isReady, isRevealing, notified>>

\* The Dashboard renders again for a reason of its own (another toast, the
\* auth context): onUpdate is a new function, so the card's effect runs again
\* on the same vault.  On a Revealing vault that is updateCountdown; on a
\* Secured one it does nothing.
rerender(s) ==
    /\ build \in {"local", "props"}
    /\ lvault[s].present
    /\ lvault[s].revealed_at # Null
    /\ timeRemaining[s] # Stamp(0)
    /\ timeRemaining' = [timeRemaining EXCEPT ![s] = Stamp(0)]
    /\ UNCHANGED <<dialog, cycle, build, user, vaults, password_vaults, now, store, lvault, isReady, isRevealing, net, notified>>

\* the Delete button (window.confirm accepted) and the Dashboard's onDelete:
\* part_000 filters and saves at once, part_002 awaits the store first
handleDelete(s) ==
    /\ build \in {"local", "props"}
    /\ lvault[s].present
    /\ IF build = "local"
       THEN /\ store' = NoVault
            /\ cycle' = cycleAfter(store, NoVault)
            /\ lvault' = [lvault EXCEPT ![s] = NoVault]
            /\ timeRemaining' = [timeRemaining EXCEPT ![s] = Null]
            /\ net' = net
       ELSE /\ CanSend(s)
            /\ net' = net \cup {Op(s, "delete", {}, Null, Null)}
            /\ UNCHANGED <<store, lvault, timeRemaining, cycle>>
    /\ UNCHANGED <<dialog, build, user, vaults, password_vaults, now, isReady, isRevealing, notified>>

-----------------------------------------------------------------------------
\* The store (supabase): every request is applied, or fails, at some moment
\* after it was sent

\* a policy that lets every user reach every row
policyForAll(uid) == TRUE

\* CREATE POLICY ... ON public.password_vaults FOR SELECT / UPDATE / DELETE
\* USING (auth.uid() = user_id): the rows a request of user uid can reach
policy(uid) == uid = user_id

\* the row as a request of session s finds it
Reached(s) == store.present /\ policy(user[s])

\* is_password_ready with a comparison that leaves out the instant the delay ends
passwordReadyLate(vault_record, t) ==
    IF vault_record.reveal_requested_at = Null THEN FALSE
    ELSE IF vault_record.revealed_at # Null THEN TRUE
    ELSE At(vault_record.reveal_requested_at)
            + vault_record.delay_seconds * TicksPerSecond < t

\* the body of is_password_ready on the record it has selected, at now() = t:
\* reveal_requested_at + (delay_seconds || ' seconds')::INTERVAL <= now()
passwordReady(vault_record, t) ==
    IF vault_record.reveal_requested_at = Null THEN FALSE
    ELSE IF vault_record.revealed_at # Null THEN TRUE
    ELSE At(vault_record.reveal_requested_at)
            + vault_record.delay_seconds * TicksPerSecond <= t

\* the id of the vault's row, and an id no row has
vault_id == "v1"
VaultIds == {"v1", "v2"}

\* a SELECT that does not look at the owner
selectAnyOwner(id, uid) ==
    IF store.present /\ id = vault_id THEN store ELSE NoVault

\* SELECT reveal_requested_at, delay_seconds, revealed_at INTO vault_record
\* FROM public.password_vaults WHERE id = vault_id AND user_id = auth.uid():
\* without a row every field of vault_record is NULL
selectInto(id, uid) ==
    IF store.present /\ id = vault_id /\ uid = user_id THEN store ELSE NoVault

\* public.is_password_ready(vault_id) called by user uid at now() = t
is_password_ready(id, uid, t) == passwordReady(selectInto(id, uid), t)

Written(op) == op.phase = "sent" /\ op.kind \in {"reveal", "mark", "hide"}

\* `found` records whether the request found the row (history, read by no
\* action: the response to an update or delete does not say so)
Answered(op, phase, data) ==
    [op EXCEPT !.phase = phase, !.data = data, !.found = Reached(op.from)]

\* nobody awaits the result of part_003's markAsRevealed beyond logging it
Reply(op, phase, data) ==
    IF build = "direct" /\ op.kind = "mark" THEN net \ {op}
    ELSE (net \ {op}) \cup {Answered(op, phase, data)}

\* postgres_changes with filter user_id=eq.${user?.id}: a changed row is
\* announced to every subscribed session of its owner
Announce(changed) ==
    IF build = "direct" /\ changed
    THEN [s \in Sessions |-> user[s] = user_id \/ notified[s]]
    ELSE notified

\* .update({...}).eq('id', id): sets the named columns of the row, if there is one
updateRow(row, op) ==
    IF ~(row.present /\ policy(user[op.from])) THEN row
    ELSE [row EXCEPT
            !.reveal_requested_at =
                IF "reveal_requested_at" \in op.cols THEN op.reveal_requested_at ELSE @,
            !.revealed_at =
                IF "revealed_at" \in op.cols THEN op.revealed_at ELSE @]

StoreUpdate(op) ==
    /\ Written(op)
    /\ store' = updateRow(store, op)
    /\ cycle' = cycleAfter(store, store')
    /\ net' = Reply(op, "ok", op.data)
    /\ notified' = Announce(Reached(op.from))
    /\ UNCHANGED <<dialog, build, user, vaults, password_vaults, now, lvault, card>>

\* .delete().eq('id', id)
StoreDelete(op) ==
    /\ op.phase = "sent" /\ op.kind = "delete"
    /\ store' = IF Reached(op.from) THEN NoVault ELSE store
    /\ cycle' = cycleAfter(store, store')
    /\ net' = Reply(op, "ok", NoVault)
    /\ notified' = Announce(Reached(op.from))
    /\ UNCHANGED <<dialog, build, user, vaults, password_vaults, now, lvault, card>>

\* .select('*'): the rows as they are when the store reads them
StoreSelect(op) ==
    /\ op.phase = "sent" /\ op.kind = "fetch"
    /\ net' = Reply(op, "ok", IF Reached(op.from) THEN store ELSE NoVault)
    /\ UNCHANGED <<dialog, cycle, build, user, vaults, password_vaults, now, store, lvault, card, notified>>

\* the request comes back with an error and the store is as it was
StoreError(op) ==
    /\ op.phase = "sent"
    /\ net' = Reply(op, "err", op.data)
    /\ UNCHANGED <<dialog, cycle, build, user, vaults, password_vaults, now, store, lvault, card, notified>>

-----------------------------------------------------------------------------
\* part_002 (part_001): the Dashboard after the await

\* setVaults(vaults.map(...)): `vaults` is the list of the render that made
\* the call, which held the vault, so the entry becomes updatedVault whatever
\* the list holds by now; a card that was unmounted meanwhile is mounted anew
handleVaultUpdatedDone(s, op) ==
    LET v == op.data
        tr == IF lvault[s].present THEN timeRemaining[s] ELSE Null
    IN  /\ build = "props"
        /\ op.from = s /\ op.phase = "ok" /\ op.kind \in {"reveal", "mark", "hide"}
        /\ lvault' = [lvault EXCEPT ![s] = v]
        /\ timeRemaining' = [timeRemaining EXCEPT ![s] = effectTime(v, tr, now)]
        /\ net' = (net \ {op}) \cup effectUpdates(s, v, timeRemaining[s], now)
        /\ UNCHANGED <<dialog, cycle, build, user, vaults, password_vaults, now, store, isReady, isRevealing, notified>>

\* setVaults(vaults.filter(...))
handleVaultDeletedDone(s, op) ==
    /\ build = "props"
    /\ op.from = s /\ op.phase = "ok" /\ op.kind = "delete"
    /\ lvault' = [lvault EXCEPT ![s] = NoVault]
    /\ timeRemaining' = [timeRemaining EXCEPT ![s] = Null]
    /\ net' = net \ {op}
    /\ UNCHANGED <<dialog, cycle, build, user, vaults, password_vaults, now, store, isReady, isRevealing, notified>>

\* the error branch: a toast (part_002) or console.error (part_001)
handleStoreError(s, op) ==
    /\ build = "props"
    /\ op.from = s /\ op.phase = "err"
    /\ net' = net \ {op}
    /\ UNCHANGED <<dialog, cycle, build, user, vaults, password_vaults, now, store, lvault, card, notified>>

-----------------------------------------------------------------------------
\* unnamed/part_003: the card that writes the store itself (build "direct")

\* markAsRevealed: only revealed_at is written, stamped when the call is made
markAsRevealed(s, t) == Op(s, "mark", {"revealed_at"}, Null, Stamp(t))

\* updateTimer on vault v: the timeRemaining and isReady it leaves
timerTime(v, tr, t) == IF Revealing(v) THEN Stamp(remaining(v, t)) ELSE tr

timerReady(v, ready, t) ==
    IF Revealing(v) THEN remaining(v, t) = 0
    ELSE IF v.revealed_at # Null THEN TRUE
    ELSE ready

\* a timer that asks for the reveal on every tick
timerWritesAlways(s, v, t) ==
    IF Revealing(v) THEN {markAsRevealed(s, t)} ELSE {}

timerWrites(s, v, t) ==
    IF Revealing(v) /\ remaining(v, t) = 0 THEN {markAsRevealed(s, t)} ELSE {}

\* the interval callback of a card whose vault is Revealing
updateTimer(s) ==
    LET v == lvault[s]
    IN  /\ build = "direct"
        /\ Revealing(v)
        /\ remaining(v, now) = 0 => CanSend(s)
        /\ timeRemaining' = [timeRemaining EXCEPT ![s] = timerTime(v, @, now)]
        /\ isReady' = [isReady EXCEPT ![s] = timerReady(v, @, now)]
        /\ net' = net \cup timerWrites(s, v, now)
        /\ UNCHANGED <<dialog, cycle, build, user, vaults, password_vaults, now, store, lvault, isRevealing, notified>>

\* the card's one button; disabled={isRevealing || (reveal_requested_at && timeRemaining > 0)}
handleReveal(s) ==
    LET v == lvault[s]
    IN  /\ build = "direct"
        /\ v.present
        /\ ~isRevealing[s]
        /\ ~(v.reveal_requested_at # Null /\ timeRemaining[s] # Null
               /\ At(timeRemaining[s]) > 0)
        /\ IF v.revealed_at # Null \/ isReady[s]
           THEN UNCHANGED <<isRevealing, net>>
           ELSE IF v.reveal_requested_at # Null
           THEN UNCHANGED <<isRevealing, net>>
           ELSE /\ CanSend(s)
                /\ isRevealing' = [isRevealing EXCEPT ![s] = TRUE]
                /\ net' = net \cup {Op(s, "reveal", {"reveal_requested_at"},
                                       Stamp(now), Null)}
        /\ UNCHANGED <<dialog, cycle, build, user, vaults, password_vaults, now, store, lvault, timeRemaining, isReady, notified>>

\* handleReveal after the await: the toast, and finally setIsRevealing(false)
handleRevealDone(s, op) ==
    /\ build = "direct"
    /\ op.from = s /\ op.kind = "reveal" /\ op.phase \in {"ok", "err"}
    /\ isRevealing' = [isRevealing EXCEPT ![s] = FALSE]
    /\ net' = net \ {op}
    /\ UNCHANGED <<dialog, cycle, build, user, vaults, password_vaults, now, store, lvault, timeRemaining, isReady, notified>>

\* handleDelete, up to the await
handleDeleteDirect(s) ==
    /\ build = "direct"
    /\ lvault[s].present
    /\ CanSend(s)
    /\ net' = net \cup {Op(s, "delete", {}, Null, Null)}
    /\ UNCHANGED <<dialog, cycle, build, user, vaults, password_vaults, now, store, lvault, card, notified>>

\* handleDelete after the await: onDelete(vault.id) is Dashboard.tsx's
\* handleVaultDeleted, setVaults(prev => prev.filter(...)); an error only toasts
handleDeleteDone(s, op) ==
    /\ build = "direct"
    /\ op.from = s /\ op.kind = "delete" /\ op.phase \in {"ok", "err"}
    /\ net' = net \ {op}
    /\ IF op.phase = "ok"
       THEN /\ lvault' = [lvault EXCEPT ![s] = NoVault]
            /\ timeRemaining' = [timeRemaining EXCEPT ![s] = Null]
            /\ isReady' = [isReady EXCEPT ![s] = FALSE]
            /\ isRevealing' = [isRevealing EXCEPT ![s] = FALSE]
       ELSE UNCHANGED <<lvault, card>>
    /\ UNCHANGED <<dialog, cycle, build, user, vaults, password_vaults, now, store, notified>>

-----------------------------------------------------------------------------
\* pages/Dashboard.tsx (build "direct")

\* the postgres_changes callback: fetchVaults(), up to the await
fetchVaults(s) ==
    /\ build = "direct"
    /\ notified[s]
    /\ CanSend(s)
    /\ notified' = [notified EXCEPT ![s] = FALSE]
    /\ net' = net \cup {Op(s, "fetch", {}, Null, Null)}
    /\ UNCHANGED <<dialog, cycle, build, user, vaults, password_vaults, now, store, lvault, card>>

\* fetchVaults after the await: setVaults(data || []), then the card's effect
\* on the new vault object; an error is logged and the list stays
fetchVaultsDone(s, op) ==
    LET v == op.data
        kept == lvault[s].present /\ v.present
        tr == IF kept THEN timeRemaining[s] ELSE Null
        ready == kept /\ isReady[s]
    IN  /\ build = "direct"
        /\ op.from = s /\ op.kind = "fetch" /\ op.phase \in {"ok", "err"}
        /\ IF op.phase = "ok"
           THEN /\ lvault' = [lvault EXCEPT ![s] = v]
                /\ timeRemaining' = [timeRemaining EXCEPT ![s] = timerTime(v, tr, now)]
                /\ isReady' = [isReady EXCEPT ![s] = timerReady(v, ready, now)]
                /\ isRevealing' = [isRevealing EXCEPT ![s] = kept /\ @]
                /\ net' = (net \ {op}) \cup timerWrites(s, v, now)
           ELSE /\ net' = net \ {op}
                /\ UNCHANGED <<lvault, card>>
        /\ UNCHANGED <<dialog, cycle, build, user, vaults, password_vaults, now, store, notified>>

-----------------------------------------------------------------------------

Step(S) ==
    \/ Advance
    \/ \E s \in S :
        \/ updateCountdown(s)
        \/ handleRevealRequest(s)
        \/ handleHidePassword(s)
        \/ rerender(s)
        \/ handleDelete(s)
        \/ updateTimer(s)
        \/ handleReveal(s)
        \/ handleDeleteDirect(s)
        \/ fetchVaults(s)
    \/ \E op \in net :
        \/ StoreUpdate(op)
        \/ StoreDelete(op)
        \/ StoreSelect(op)
        \/ StoreError(op)
        \/ handleVaultUpdatedDone(op.from, op)
        \/ handleVaultDeletedDone(op.from, op)
        \/ handleStoreError(op.from, op)
        \/ handleRevealDone(op.from, op)
        \/ handleDeleteDone(op.from, op)
        \/ fetchVaultsDone(op.from, op)

\* any number of sessions
Next == Step(Sessions)

Spec == Init /\ [][Next]_vars

\* one session alone with the store
NextSolo == Step({"s1"})

SpecSolo == Init /\ [][NextSolo]_vars

-----------------------------------------------------------------------------
\* One session that does not wait for the store before its next command

\* the Delete button (confirm accepted) of a card while an earlier request of
\* the session is still awaited: onDelete is called all the same
handleDeleteWhileAwaiting(s) ==
    /\ build \in {"props", "direct"}
    /\ lvault[s].present
    /\ OpsOf(s) # {}
    /\ \A op \in OpsOf(s) : op.kind # "delete"
    /\ net' = net \cup {Op(s, "delete", {}, Null, Null)}
    /\ UNCHANGED <<dialog, cycle, build, user, vaults, password_vaults, now, store, lvault, card, notified>>

NextOverlap ==
    \/ NextSolo
    \/ handleDeleteWhileAwaiting("s1")

SpecOverlap == Init /\ [][NextOverlap]_vars

\* Dashboard.tsx: the postgres_changes callback calls fetchVaults() whatever
\* the session is still waiting for, so several selects can be on their way
\* and come back in any order
fetchVaultsWhileAwaiting(s) ==
    /\ build = "direct"
    /\ notified[s]
    /\ OpsOf(s) # {}
    /\ notified' = [notified EXCEPT ![s] = FALSE]
    /\ net' = net \cup {Op(s, "fetch", {}, Null, Null)}
    /\ UNCHANGED <<dialog, cycle, build, user, vaults, password_vaults, now, store, lvault, card>>

NextRefetch ==
    \/ NextOverlap
    \/ fetchVaultsWhileAwaiting("s1")

SpecRefetch == Init /\ [][NextRefetch]_vars

-----------------------------------------------------------------------------
\* A session of another user: s1 is signed in as the vault's owner, s2 as
\* somebody else whose Dashboard still lists the vault, so that its card
\* sends the same requests with the other user's token.

Users == {"u1", "u2"}

InitOwner ==
    /\ build \in {"props", "direct"}
    /\ now = 0
    /\ store = Vault(Null, Null)
    /\ lvault = [s \in Sessions |-> Vault(Null, Null)]
    /\ timeRemaining = [s \in Sessions |-> Null]
    /\ isReady = [s \in Sessions |-> FALSE]
    /\ isRevealing = [s \in Sessions |-> FALSE]
    /\ net = {}
    /\ notified = [s \in Sessions |-> FALSE]
    /\ cycle = [afterHide |-> FALSE, requested |-> Null]
    /\ vaults = [s \in Sessions |-> << >>]
    /\ password_vaults = << >>
    /\ dialog = [s \in Sessions |-> NoDialog]
    /\ user \in {u \in [Sessions -> Users] : u["s1"] = user_id /\ u["s2"] # user_id}

SpecOwner == InitOwner /\ [][Next]_vars

-----------------------------------------------------------------------------
\* The countdown on its own: at time 0 session s1 opens the page on a vault
\* of any delay that was requested (and perhaps revealed) some time before;
\* the other session is not signed in.

\* the record a card's first effect leaves in localStorage (part_000) when it
\* finds the delay elapsed
mountedVault(b, v, t) ==
    IF b = "local" /\ Revealing(v) /\ remaining(v, t) = 0
    THEN [v EXCEPT !.revealed_at = Stamp(t)]
    ELSE v

\* the requests a card's first effect sends
mountedWrites(b, s, v, t) ==
    IF b = "props" THEN effectUpdates(s, v, Null, t)
    ELSE IF b = "direct" THEN timerWrites(s, v, t)
    ELSE {}

\* a page that is opened on a vault whose request carries a stamp of Requested
InitMounted(Requested) ==
    \E d \in 1..MaxDelay, t0 \in Requested, marked \in BOOLEAN :
        LET t == 0
            rv == IF marked THEN Stamp(t) ELSE Null
            v0 == VaultOf(SomeTitle, SomePassword, d, Stamp(t0), rv)
        IN  /\ marked => remaining(v0, t) = 0
            /\ build \in Builds
            /\ now = t
            /\ store = mountedVault(build, v0, t)
            /\ lvault = [s \in Sessions |-> IF s = "s1" THEN store ELSE NoVault]
            /\ timeRemaining =
                    [s \in Sessions |->
                        IF s # "s1" THEN Null
                        ELSE IF build = "direct" THEN timerTime(store, Null, t)
                        ELSE effectTime(store, Null, t)]
            /\ isReady = [s \in Sessions |-> s = "s1" /\ timerReady(store, FALSE, t)
                                                /\ build = "direct"]
            /\ isRevealing = [s \in Sessions |-> FALSE]
            /\ net = mountedWrites(build, "s1", v0, t)
            /\ notified = [s \in Sessions |-> FALSE]
            /\ cycle = [afterHide |-> FALSE, requested |-> Null]
            /\ vaults = [s \in Sessions |-> << >>]
            /\ password_vaults = << >>
            /\ user = [s \in Sessions |-> user_id]
            /\ dialog = [s \in Sessions |-> NoDialog]

\* the request was stamped in the past of this session's clock
InitCountdown == InitMounted((0 - (MaxDelay + 1) * TicksPerSecond)..0)

SpecCountdown == InitCountdown /\ [][NextSolo]_vars

\* the request was stamped by a session whose Date.now() is ahead of the
\* clock of this session
MaxSkew == 2

InitSkew == InitMounted(1..(MaxSkew * TicksPerSecond))

SpecSkew == InitSkew /\ [][NextSolo]_vars

\* requests stamped before and after the clock of this session
InitReady == InitMounted((0 - (MaxDelay + 1) * TicksPerSecond)..(MaxSkew * TicksPerSecond))

SpecReady == InitReady /\ [][NextSolo]_vars


\* part_000: the page is opened or loaded again.  The mount effect reads the
\* saved list (JSON.parse(localStorage.getItem('password_vaults'))), the card
\* is mounted with fresh state and its effect runs on the saved record.
reload(s) ==
    LET v == mountedVault(build, store, now)
    IN  /\ build = "local"
        /\ store.present
        /\ lvault' = [lvault EXCEPT ![s] = v]
        /\ store' = v
        /\ cycle' = cycleAfter(store, v)
        /\ timeRemaining' = [timeRemaining EXCEPT ![s] = effectTime(v, Null, now)]
        /\ UNCHANGED <<build, user, now, isReady, isRevealing, net, notified, dialog,
                       vaults, password_vaults>>

\* SimpleVault in one browser: a tab that stays open and one that is opened
\* later, on a vault that was requested some time before
InitReload == InitCountdown /\ build = "local"

NextReload ==
    \/ Advance
    \/ \E s \in Sessions :
        \/ updateCountdown(s)
        \/ handleRevealRequest(s)
        \/ handleHidePassword(s)
        \/ handleDelete(s)
        \/ reload(s)

SpecReload == InitReload /\ [][NextReload]_vars

-----------------------------------------------------------------------------
\* What the claims speak of

-----------------------------------------------------------------------------
\* Creating a vault: the Create Vault dialog of unnamed/part_004 (builds
\* "local" and "props", which hand the vault to the Dashboard's
\* handleVaultCreated) and that of components/CreateVaultDialog.tsx (build
\* "direct", which inserts the row itself and then calls fetchVaults)

\* delay_seconds >= 1 AND delay_seconds <= 1576800000
MinDelaySeconds == 1
MaxDelaySeconds == 1576800000
\* CreateVaultDialog.tsx: "between 10 seconds and 1 year"
OldMinDelaySeconds == 10
OldMaxDelaySeconds == 31536000
\* <Input type="number" min="1" max="50" required />
MinDelayValue == 1
MaxDelayValue == 50

\* String.prototype.trim on a sequence of characters
RECURSIVE trimStart(_)
trimStart(t) == IF t # << >> /\ Head(t) = " " THEN trimStart(Tail(t)) ELSE t

RECURSIVE trimEnd(_)
trimEnd(t) ==
    IF t # << >> /\ t[Len(t)] = " " THEN trimEnd(SubSeq(t, 1, Len(t) - 1)) ELSE t

trim(t) == trimEnd(trimStart(t))

\* part_004 getDelaySeconds
getDelaySeconds(value, type) ==
    CASE type = "seconds" -> value
      [] type = "minutes" -> value * 60
      [] type = "hours" -> value * 3600
      [] type = "days" -> value * 86400
      [] type = "weeks" -> value * 604800
      [] type = "months" -> value * 2592000
      [] type = "years" -> value * 31536000
      [] OTHER -> value * 60

\* CreateVaultDialog.tsx getDelayInSeconds
getDelayInSeconds(value, type) ==
    CASE type = "seconds" -> value
      [] type = "minutes" -> value * 60
      [] type = "hours" -> value * 3600
      [] type = "days" -> value * 86400
      [] OTHER -> value * 60

\* the delay a dialog's fields stand for
delayOf(d) ==
    IF build = "direct" THEN getDelayInSeconds(d.delayValue, d.delayType)
    ELSE getDelaySeconds(d.delayValue, d.delayType)

\* the browser's constraint validation of the form, which precedes onSubmit:
\* title and password are `required`, the delay is a number >= min (and <= max
\* in part_004)
checkValidity(d) ==
    /\ d.title # << >>
    /\ d.password # << >>
    /\ d.delayValue >= MinDelayValue
    /\ build # "direct" => d.delayValue <= MaxDelayValue

\* part_004 handleSubmit: if (delaySeconds < 1 || delaySeconds > 1576800000)
invalidDelay(delaySeconds) ==
    delaySeconds < MinDelaySeconds \/ delaySeconds > MaxDelaySeconds

\* a dialog that takes any delay
acceptsAnyDelay(delaySeconds) == FALSE

\* CreateVaultDialog.tsx handleSubmit: if (delaySeconds < 10 || delaySeconds > 31536000)
invalidDelayOld(delaySeconds) ==
    delaySeconds < OldMinDelaySeconds \/ delaySeconds > OldMaxDelaySeconds

\* CreateVaultDialog.tsx handleSubmit: if (!title.trim() || !password.trim())
missingFields(d) == trim(d.title) = << >> \/ trim(d.password) = << >>

\* what the dialog tells the user
Shows(s, text) == dialog' = [dialog EXCEPT ![s].toast = text]

\* the form is reset and the dialog closed
Closes(s, text) == dialog' = [dialog EXCEPT ![s] = [NoDialog EXCEPT !.toast = text]]

\* the Dashboard's handleVaultCreated: part_000 prepends the vault and saves
\* the list at once; part_002 (part_001) sends the insert and awaits it
handleVaultCreated(s, vault) ==
    IF build = "local"
    THEN /\ store' = vault
         /\ cycle' = cycleAfter(store, vault)
         /\ lvault' = [lvault EXCEPT ![s] = vault]
         /\ timeRemaining' = [timeRemaining EXCEPT ![s] = Null]
         /\ net' = net
    ELSE /\ CanSend(s)
         /\ net' = net \cup {[Op(s, "insert", {}, Null, Null) EXCEPT !.data = vault]}
         /\ UNCHANGED <<store, lvault, timeRemaining, cycle>>

\* part_004: the Create Vault button of a filled dialog
handleSubmit(s) ==
    LET d == dialog[s]
        delaySeconds == getDelaySeconds(d.delayValue, d.delayType)
    IN  /\ build \in {"local", "props"}
        /\ d.open
        /\ IF ~checkValidity(d)
           THEN /\ Shows(s, "form invalid")
                /\ UNCHANGED <<store, lvault, timeRemaining, net, cycle>>
           ELSE IF invalidDelay(delaySeconds)
           THEN /\ Shows(s, "Invalid delay")
                /\ UNCHANGED <<store, lvault, timeRemaining, net, cycle>>
           ELSE /\ handleVaultCreated(s, VaultOf(trim(d.title), d.password,
                                                 delaySeconds, Null, Null))
                /\ Closes(s, "Vault created!")
        /\ UNCHANGED <<build, user, vaults, password_vaults, now, isReady, isRevealing, notified>>

\* the table's constraints on a new row: title and encrypted_password NOT
\* NULL, CHECK (delay_seconds >= 1 AND delay_seconds <= 1576800000)
rowAccepted(row) ==
    row.delay_seconds >= MinDelaySeconds /\ row.delay_seconds <= MaxDelaySeconds

\* a store that stamps the request on every new row
StoreInsertStamped(op) ==
    /\ op.phase = "sent" /\ op.kind = "insert"
    /\ IF rowAccepted(op.data)
       THEN /\ store' = [op.data EXCEPT !.reveal_requested_at = Stamp(now)]
            /\ cycle' = cycleAfter(store, store')
            /\ net' = Reply(op, "ok", store')
            /\ notified' = Announce(TRUE)
       ELSE /\ net' = Reply(op, "err", op.data)
            /\ UNCHANGED <<store, cycle, notified>>
    /\ UNCHANGED <<dialog, build, user, vaults, password_vaults, now, lvault, card>>

\* .insert({...})
StoreInsert(op) ==
    /\ op.phase = "sent" /\ op.kind = "insert"
    /\ IF rowAccepted(op.data)
       THEN /\ store' = op.data
            /\ cycle' = cycleAfter(store, op.data)
            /\ net' = Reply(op, "ok", op.data)
            /\ notified' = Announce(TRUE)
       ELSE /\ net' = Reply(op, "err", op.data)
            /\ UNCHANGED <<store, cycle, notified>>
    /\ UNCHANGED <<dialog, build, user, vaults, password_vaults, now, lvault, card>>

\* part_002 (part_001) handleVaultCreated after the await: setVaults([data, ...vaults])
handleVaultCreatedDone(s, op) ==
    /\ build = "props"
    /\ op.from = s /\ op.phase = "ok" /\ op.kind = "insert"
    /\ lvault' = [lvault EXCEPT ![s] = op.data]
    /\ timeRemaining' = [timeRemaining EXCEPT ![s] = Null]
    /\ net' = net \ {op}
    /\ UNCHANGED <<dialog, cycle, build, user, vaults, password_vaults, now, store, isReady, isRevealing, notified>>

\* CreateVaultDialog.tsx: the Create Vault button of a filled dialog, up to
\* the await of the insert; the button is disabled while loading
handleSubmitDirect(s) ==
    LET d == dialog[s]
        delaySeconds == getDelayInSeconds(d.delayValue, d.delayType)
    IN  /\ build = "direct"
        /\ d.open
        /\ IF ~checkValidity(d)
           THEN Shows(s, "form invalid") /\ net' = net
           ELSE IF missingFields(d)
           THEN Shows(s, "Missing fields") /\ net' = net
           ELSE IF invalidDelayOld(delaySeconds)
           THEN Shows(s, "Invalid delay") /\ net' = net
           ELSE /\ CanSend(s)
                /\ net' = net \cup {[Op(s, "insert", {}, Null, Null) EXCEPT
                                       !.data = VaultOf(trim(d.title), d.password,
                                                        delaySeconds, Null, Null)]}
                /\ dialog' = dialog
        /\ UNCHANGED <<cycle, build, user, vaults, password_vaults, now, store, lvault, card, notified>>

\* CreateVaultDialog.tsx handleSubmit after the await: the toast, the reset
\* form and onVaultCreated(), which is Dashboard.tsx's fetchVaults; or the
\* error toast
handleSubmitDone(s, op) ==
    /\ build = "direct"
    /\ op.from = s /\ op.kind = "insert" /\ op.phase \in {"ok", "err"}
    /\ IF op.phase = "ok"
       THEN /\ Closes(s, "Vault created")
            /\ net' = (net \ {op}) \cup {Op(s, "fetch", {}, Null, Null)}
       ELSE /\ Shows(s, "Error")
            /\ net' = net \ {op}
    /\ UNCHANGED <<cycle, build, user, vaults, password_vaults, now, store, lvault, card, notified>>

\* what is typed into the dialog: titles and passwords with and without
\* blanks, delays at and around the limits of either dialog
Titles == {<< >>, <<" ">>, <<"a">>, <<" ", "a", " ">>}
Passwords == {<< >>, <<" ">>, <<"p">>}

DelayValues(b) ==
    IF b = "direct" THEN {0, 1, 9, 10, 366, 18251} ELSE {0, 1, 50, 51}

DelayTypes(b) ==
    IF b = "direct" THEN {"seconds", "minutes", "hours", "days"}
    ELSE {"seconds", "minutes", "hours", "days", "weeks", "months", "years"}

\* session s1 has opened the dialog on an empty vault list and filled it in
InitCreate ==
    /\ build \in Builds
    /\ now = 0
    /\ store = NoVault
    /\ lvault = [s \in Sessions |-> NoVault]
    /\ timeRemaining = [s \in Sessions |-> Null]
    /\ isReady = [s \in Sessions |-> FALSE]
    /\ isRevealing = [s \in Sessions |-> FALSE]
    /\ net = {}
    /\ notified = [s \in Sessions |-> FALSE]
    /\ cycle = [afterHide |-> FALSE, requested |-> Null]
    /\ vaults = [s \in Sessions |-> << >>]
    /\ password_vaults = << >>
    /\ user = [s \in Sessions |-> user_id]
    /\ \E title \in Titles, password \in Passwords,
          value \in DelayValues(build), type \in DelayTypes(build) :
          dialog = [s \in Sessions |->
                      IF s = "s1"
                      THEN [title |-> title, password |-> password,
                            delayValue |-> value, delayType |-> type,
                            open |-> TRUE, toast |-> "none"]
                      ELSE NoDialog]

NextCreate ==
    \/ \E s \in {"s1"} :
        \/ handleSubmit(s)
        \/ handleSubmitDirect(s)
        \/ fetchVaults(s)
    \/ \E op \in net :
        \/ StoreInsert(op)
        \/ StoreSelect(op)
        \/ StoreError(op)
        \/ handleVaultCreatedDone(op.from, op)
        \/ handleStoreError(op.from, op)
        \/ handleSubmitDone(op.from, op)
        \/ fetchVaultsDone(op.from, op)

SpecCreate == InitCreate /\ [][NextCreate]_vars


\* the vault that was created goes through its lifecycle
NextCreated ==
    \/ NextCreate
    \/ NextSolo

SpecCreated == InitCreate /\ [][NextCreated]_vars

-----------------------------------------------------------------------------
\* The delay field as text.  delayValue is the string the number input holds;
\* the browser reads it as a floating-point number for min, max and step,
\* handleSubmit reads it with parseInt.  A JavaScript number is <<n>>, and
\* NaN is << >>.

NaN == << >>

DigitChars == <<"0", "1", "2", "3", "4", "5", "6", "7", "8", "9">>
isDigit(c) == \E i \in 1..10 : DigitChars[i] = c
digit(c) == (CHOOSE i \in 1..10 : DigitChars[i] = c) - 1

\* the longest prefix of digits
RECURSIVE leadingDigits(_)
leadingDigits(t) ==
    IF t # << >> /\ isDigit(Head(t)) THEN <<Head(t)>> \o leadingDigits(Tail(t))
    ELSE << >>

after(t, prefix) == SubSeq(t, Len(prefix) + 1, Len(t))

RECURSIVE toNumber(_)
toNumber(ds) ==
    IF ds = << >> THEN 0
    ELSE toNumber(SubSeq(ds, 1, Len(ds) - 1)) * 10 + digit(ds[Len(ds)])

RECURSIVE pow10(_)
pow10(n) == IF n = 0 THEN 1 ELSE 10 * pow10(n - 1)

\* parseInt(string): the digits the string starts with, NaN if there are none
\* (the strings of the model carry no blank and no sign)
parseInt(t) ==
    IF leadingDigits(t) = << >> THEN NaN ELSE <<toNumber(leadingDigits(t))>>

\* delaySeconds as a number: NaN times anything is NaN
times(x, k) == IF x = NaN THEN NaN ELSE <<x[1] * k>>

\* part_004 getDelaySeconds on the text of the field
getDelaySecondsOfText(text, type) ==
    LET value == parseInt(text)
    IN  CASE type = "seconds" -> value
          [] type = "minutes" -> times(value, 60)
          [] type = "hours" -> times(value, 3600)
          [] type = "days" -> times(value, 86400)
          [] type = "weeks" -> times(value, 604800)
          [] type = "months" -> times(value, 2592000)
          [] type = "years" -> times(value, 31536000)
          [] OTHER -> times(value, 60)

\* CreateVaultDialog.tsx getDelayInSeconds on the text of the field
getDelayInSecondsOfText(text, type) ==
    LET value == parseInt(text)
    IN  CASE type = "seconds" -> value
          [] type = "minutes" -> times(value, 60)
          [] type = "hours" -> times(value, 3600)
          [] type = "days" -> times(value, 86400)
          [] OTHER -> times(value, 60)

\* a comparison with NaN is false
lessThan(x, k) == x # NaN /\ x[1] < k
greaterThan(x, k) == x # NaN /\ x[1] > k

\* if (delaySeconds < min || delaySeconds > max)
invalidDelayNumber(delaySeconds, min, max) ==
    lessThan(delaySeconds, min) \/ greaterThan(delaySeconds, max)

\* <input type="number">: the value as the browser reads it, a valid
\* floating-point number: digits, or digits with a fraction, then an optional
\* exponent.  `ok` says that the text is one, and the number is
\* mantissa * 10^exponent
valueAsNumber(t) ==
    LET whole == leadingDigits(t)
        r1 == after(t, whole)
        hasDot == r1 # << >> /\ Head(r1) = "."
        fraction == IF hasDot THEN leadingDigits(Tail(r1)) ELSE << >>
        r2 == IF hasDot THEN after(Tail(r1), fraction) ELSE r1
        hasExp == r2 # << >> /\ Head(r2) = "e"
        power == IF hasExp THEN leadingDigits(Tail(r2)) ELSE << >>
        r3 == IF hasExp THEN after(Tail(r2), power) ELSE r2
    IN  [ok |-> /\ (whole # << >> \/ fraction # << >>)
                /\ hasDot => fraction # << >>
                /\ hasExp => power # << >>
                /\ r3 = << >>,
         mantissa |-> toNumber(whole \o fraction),
         exponent |-> toNumber(power) - Len(fraction)]

\* the number is an integer (step="1" from min="1") and is at least min and,
\* where the input has a max, at most max
inRangeAndStep(n, hasMax) ==
    LET scale == pow10(IF n.exponent < 0 THEN 0 - n.exponent ELSE n.exponent)
        integer == n.exponent >= 0 \/ n.mantissa % scale = 0
        value == IF n.exponent >= 0 THEN n.mantissa * scale ELSE n.mantissa \div scale
    IN  /\ integer
        /\ value >= MinDelayValue
        /\ hasMax => value <= MaxDelayValue

\* the browser's constraint validation of the form with the delay as text
checkValidityOfText(d) ==
    /\ d.title # << >>
    /\ d.password # << >>
    /\ d.delayValue # << >>
    /\ valueAsNumber(d.delayValue).ok
    /\ inRangeAndStep(valueAsNumber(d.delayValue), build # "direct")

\* part_004 handleSubmit with the delay as text
handleSubmitOfText(s) ==
    LET d == dialog[s]
        delaySeconds == getDelaySecondsOfText(d.delayValue, d.delayType)
    IN  /\ build = "props"
        /\ d.open
        /\ IF ~checkValidityOfText(d)
           THEN /\ Shows(s, "form invalid")
                /\ UNCHANGED <<store, lvault, timeRemaining, net, cycle>>
           ELSE IF invalidDelayNumber(delaySeconds, MinDelaySeconds, MaxDelaySeconds)
           THEN /\ Shows(s, "Invalid delay")
                /\ UNCHANGED <<store, lvault, timeRemaining, net, cycle>>
           ELSE /\ handleVaultCreated(s, VaultOf(trim(d.title), d.password,
                                                 delaySeconds, Null, Null))
                /\ Closes(s, "Vault created!")
        /\ UNCHANGED <<build, user, vaults, password_vaults, now, isReady, isRevealing, notified>>

\* CreateVaultDialog.tsx handleSubmit with the delay as text, up to the await
handleSubmitDirectOfText(s) ==
    LET d == dialog[s]
        delaySeconds == getDelayInSecondsOfText(d.delayValue, d.delayType)
    IN  /\ build = "direct"
        /\ d.open
        /\ IF ~checkValidityOfText(d)
           THEN Shows(s, "form invalid") /\ net' = net
           ELSE IF missingFields(d)
           THEN Shows(s, "Missing fields") /\ net' = net
           ELSE IF invalidDelayNumber(delaySeconds, OldMinDelaySeconds, OldMaxDelaySeconds)
           THEN Shows(s, "Invalid delay") /\ net' = net
           ELSE /\ CanSend(s)
                /\ net' = net \cup {[Op(s, "insert", {}, Null, Null) EXCEPT
                                       !.data = VaultOf(trim(d.title), d.password,
                                                        delaySeconds, Null, Null)]}
                /\ dialog' = dialog
        /\ UNCHANGED <<cycle, build, user, vaults, password_vaults, now, store, lvault, card, notified>>

\* the request body is JSON: JSON.stringify gives null for NaN.  The column is
\* delay_seconds INTEGER NOT NULL CHECK (delay_seconds >= 1 AND delay_seconds
\* <= 1576800000)
rowAcceptedOfJson(row) ==
    /\ row.delay_seconds # NaN
    /\ row.delay_seconds[1] >= MinDelaySeconds
    /\ row.delay_seconds[1] <= MaxDelaySeconds

\* .insert({...}) of the row that came as JSON
StoreInsertOfJson(op) ==
    /\ op.phase = "sent" /\ op.kind = "insert"
    /\ IF rowAcceptedOfJson(op.data)
       THEN /\ store' = [op.data EXCEPT !.delay_seconds = @[1]]
            /\ cycle' = cycleAfter(store, store')
            /\ net' = Reply(op, "ok", store')
            /\ notified' = Announce(TRUE)
       ELSE /\ net' = Reply(op, "err", op.data)
            /\ UNCHANGED <<store, cycle, notified>>
    /\ UNCHANGED <<dialog, build, user, vaults, password_vaults, now, lvault, card>>

\* what is typed into the delay field: numbers at and around the limits, a
\* fraction, and numbers in the notations the field takes
DelayTexts ==
    {<< >>, <<"0">>, <<"1">>, <<"9">>, <<"1", "0">>, <<"5", "0">>, <<"5", "1">>,
     <<"1", ".", "5">>, <<".", "5">>, <<"1", "e", "1">>, <<".", "5", "e", "1">>,
     <<"5", "e">>}

\* session s1 has filled the dialog of a supabase build
InitDelay ==
    /\ build \in {"props", "direct"}
    /\ now = 0
    /\ store = NoVault
    /\ lvault = [s \in Sessions |-> NoVault]
    /\ timeRemaining = [s \in Sessions |-> Null]
    /\ isReady = [s \in Sessions |-> FALSE]
    /\ isRevealing = [s \in Sessions |-> FALSE]
    /\ net = {}
    /\ notified = [s \in Sessions |-> FALSE]
    /\ cycle = [afterHide |-> FALSE, requested |-> Null]
    /\ vaults = [s \in Sessions |-> << >>]
    /\ password_vaults = << >>
    /\ user = [s \in Sessions |-> user_id]
    /\ \E text \in DelayTexts, type \in DelayTypes(build) :
          dialog = [s \in Sessions |->
                      IF s = "s1"
                      THEN [title |-> <<"a">>, password |-> <<"p">>,
                            delayValue |-> text, delayType |-> type,
                            open |-> TRUE, toast |-> "none"]
                      ELSE NoDialog]

NextDelay ==
    \/ \E s \in {"s1"} :
        \/ handleSubmitOfText(s)
        \/ handleSubmitDirectOfText(s)
        \/ fetchVaults(s)
    \/ \E op \in net :
        \/ StoreInsertOfJson(op)
        \/ StoreSelect(op)
        \/ StoreError(op)
        \/ handleVaultCreatedDone(op.from, op)
        \/ handleStoreError(op.from, op)
        \/ handleSubmitDone(op.from, op)
        \/ fetchVaultsDone(op.from, op)

SpecDelay == InitDelay /\ [][NextDelay]_vars

-----------------------------------------------------------------------------
\* The list of vaults of a Dashboard: part_000 (build "local"), part_002 and
\* part_001 (build "props"), pages/Dashboard.tsx (build "direct").  A row
\* holds what the order of the list depends on, and the column a reveal
\* request changes.

MaxVaults == 2

Range(list) == {list[i] : i \in DOMAIN list}
Ids(list) == {list[i].id : i \in DOMAIN list}

\* crypto.randomUUID() / gen_random_uuid(): an id nobody holds
freshId == CHOOSE id \in 1..(MaxVaults + 1) :
               /\ id \notin Ids(password_vaults)
               /\ \A s \in Sessions : id \notin Ids(vaults[s])
               /\ \A other \in 1..(id - 1) :
                      \/ other \in Ids(password_vaults)
                      \/ \E s \in Sessions : other \in Ids(vaults[s])

\* created_at: new Date().toISOString() in part_000, DEFAULT now() in the table
newVault(t) == [id |-> freshId, created_at |-> t, reveal_requested_at |-> Null]

descending(list) ==
    \A i, j \in DOMAIN list : i < j => list[i].created_at >= list[j].created_at

\* .select('*').order('created_at', { ascending: false }): the rows, newest
\* first; rows of equal created_at come in whatever order the scan meets them
orderByCreatedAt(rows) ==
    {list \in [1..Len(rows) -> Range(rows)] :
        /\ \A i, j \in 1..Len(rows) : i # j => list[i] # list[j]
        /\ descending(list)}

\* vaults.map(vault => vault.id === updatedVault.id ? updatedVault : vault)
mapVault(list, updatedVault) ==
    [i \in DOMAIN list |-> IF list[i].id = updatedVault.id THEN updatedVault ELSE list[i]]

\* vaults.filter(vault => vault.id !== id)
RECURSIVE filterVault(_, _)
filterVault(list, id) ==
    IF list = << >> THEN << >>
    ELSE IF Head(list).id = id THEN filterVault(Tail(list), id)
    ELSE <<Head(list)>> \o filterVault(Tail(list), id)

\* part_000 saveVaults: the state and the saved list are the same list
saveVaults(s, newVaults) ==
    /\ vaults' = [vaults EXCEPT ![s] = newVaults]
    /\ password_vaults' = newVaults

\* the three Dashboards' handleVaultCreated (in the direct build the dialog
\* inserts the row and the list waits for fetchVaults)
createVault(s) ==
    LET vault == newVault(now)
    IN  /\ Len(password_vaults) < MaxVaults
        /\ Len(vaults[s]) < MaxVaults
        /\ CASE build = "local" -> saveVaults(s, <<vault>> \o vaults[s])
             [] build = "props" ->
                  /\ password_vaults' = Append(password_vaults, vault)
                  /\ vaults' = [vaults EXCEPT ![s] = <<vault>> \o @]
             [] OTHER ->
                  /\ password_vaults' = Append(password_vaults, vault)
                  /\ vaults' = vaults
        /\ UNCHANGED <<build, user, now, store, lvault, card, net, notified, cycle, dialog>>

\* a reveal request or a hide of the i-th vault of the list
updateVault(s, i) ==
    LET vault == vaults[s][i]
        updatedVault == [vault EXCEPT !.reveal_requested_at =
                                         IF @ = Null THEN Stamp(now) ELSE Null]
    IN  /\ i \in DOMAIN vaults[s]
        /\ CASE build = "local" -> saveVaults(s, mapVault(vaults[s], updatedVault))
             [] build = "props" ->
                  /\ password_vaults' = mapVault(password_vaults, updatedVault)
                  /\ vaults' = [vaults EXCEPT ![s] = mapVault(@, updatedVault)]
             [] OTHER ->
                  /\ password_vaults' = mapVault(password_vaults, updatedVault)
                  /\ vaults' = vaults
        /\ UNCHANGED <<build, user, now, store, lvault, card, net, notified, cycle, dialog>>

\* the three Dashboards' handleVaultDeleted for the i-th vault of the list
deleteVault(s, i) ==
    /\ i \in DOMAIN vaults[s]
    /\ IF build = "local"
       THEN saveVaults(s, filterVault(vaults[s], vaults[s][i].id))
       ELSE /\ password_vaults' = filterVault(password_vaults, vaults[s][i].id)
            /\ vaults' = [vaults EXCEPT ![s] = filterVault(@, vaults[s][i].id)]
    /\ UNCHANGED <<build, user, now, store, lvault, card, net, notified, cycle, dialog>>

\* part_002 loadVaults (page load) and Dashboard.tsx fetchVaults (page load
\* and every change notification): setVaults(data || [])
loadVaults(s) ==
    /\ build \in {"props", "direct"}
    /\ \E data \in orderByCreatedAt(password_vaults) :
          vaults' = [vaults EXCEPT ![s] = data]
    /\ UNCHANGED <<build, user, now, store, lvault, card, net, notified, cycle, dialog,
                   password_vaults>>

\* one session and an empty list
InitList ==
    /\ build \in Builds
    /\ now = 0
    /\ store = NoVault
    /\ lvault = [s \in Sessions |-> NoVault]
    /\ timeRemaining = [s \in Sessions |-> Null]
    /\ isReady = [s \in Sessions |-> FALSE]
    /\ isRevealing = [s \in Sessions |-> FALSE]
    /\ net = {}
    /\ notified = [s \in Sessions |-> FALSE]
    /\ cycle = [afterHide |-> FALSE, requested |-> Null]
    /\ dialog = [s \in Sessions |-> NoDialog]
    /\ vaults = [s \in Sessions |-> << >>]
    /\ password_vaults = << >>
    /\ user = [s \in Sessions |-> user_id]

NextList ==
    \/ Advance
    \/ createVault("s1")
    \/ \E i \in 1..MaxVaults : updateVault("s1", i)
    \/ \E i \in 1..MaxVaults : deleteVault("s1", i)
    \/ loadVaults("s1")

SpecList == InitList /\ [][NextList]_vars

-----------------------------------------------------------------------------
\* part_002 (part_001) with several vaults and requests that overlap: each
\* handler is a closure of one render, awaits the store, and then sets the
\* list from the `vaults` of that render.

MaxOverlap == 2

NoRow == [id |-> 0, created_at |-> 0, reveal_requested_at |-> Null]

\* a call of a handler: `vaults` is the list of the render the handler
\* belongs to
ListOp(s, kind, id, vault) ==
    [from |-> s, kind |-> kind, id |-> id, vault |-> vault,
     vaults |-> vaults[s], phase |-> "sent"]

CanCall(op) == Cardinality(net) < MaxOverlap /\ op \notin net

\* the ids that a row, a list or a request holds
heldIds ==
    (Ids(password_vaults)
        \cup UNION {Ids(vaults[s]) : s \in Sessions}
        \cup UNION {Ids(op.vaults) \cup {op.id, op.vault.id} : op \in net}) \ {0}

\* gen_random_uuid(): an id that no row, no list and no request holds
unusedId ==
    CHOOSE id \in 1..(MaxVaults + 1) :
        id \notin heldIds /\ \A other \in 1..(id - 1) : other \in heldIds

\* handleVaultCreated up to its await
handleVaultCreatedAwait(s) ==
    LET op == ListOp(s, "insert", 0, NoRow)
    IN  /\ build = "props" /\ CanCall(op)
        /\ Cardinality(heldIds)
             + Cardinality({o \in net : o.kind = "insert" /\ o.phase = "sent"}) < MaxVaults
        /\ net' = net \cup {op}
        /\ UNCHANGED <<build, user, now, store, lvault, card, notified, cycle, dialog,
                       vaults, password_vaults>>

\* handleVaultUpdated up to its await, for a reveal request or a hide of the
\* i-th card
handleVaultUpdatedAwait(s, i) ==
    /\ build = "props" /\ i \in DOMAIN vaults[s]
    /\ LET vault == vaults[s][i]
           updatedVault == [vault EXCEPT !.reveal_requested_at =
                                            IF @ = Null THEN Stamp(now) ELSE Null]
           op == ListOp(s, "update", vault.id, updatedVault)
       IN  /\ CanCall(op)
           /\ net' = net \cup {op}
    /\ UNCHANGED <<build, user, now, store, lvault, card, notified, cycle, dialog,
                   vaults, password_vaults>>

\* handleVaultDeleted up to its await, for the i-th card
handleVaultDeletedAwait(s, i) ==
    /\ build = "props" /\ i \in DOMAIN vaults[s]
    /\ LET op == ListOp(s, "delete", vaults[s][i].id, vaults[s][i])
       IN  /\ CanCall(op)
           /\ net' = net \cup {op}
    /\ UNCHANGED <<build, user, now, store, lvault, card, notified, cycle, dialog,
                   vaults, password_vaults>>

\* the store applies .insert([...]).select().single(), .update({...}).eq('id', id)
\* or .delete().eq('id', id)
StoreList(op) ==
    /\ op.phase = "sent"
    /\ LET data == [id |-> unusedId, created_at |-> now, reveal_requested_at |-> Null]
       IN  CASE op.kind = "insert" ->
                  /\ password_vaults' = Append(password_vaults, data)
                  /\ net' = (net \ {op}) \cup {[op EXCEPT !.phase = "ok", !.vault = data]}
             [] op.kind = "update" ->
                  /\ password_vaults' = mapVault(password_vaults, op.vault)
                  /\ net' = (net \ {op}) \cup {[op EXCEPT !.phase = "ok"]}
             [] OTHER ->
                  /\ password_vaults' = filterVault(password_vaults, op.id)
                  /\ net' = (net \ {op}) \cup {[op EXCEPT !.phase = "ok"]}
    /\ UNCHANGED <<build, user, now, store, lvault, card, notified, cycle, dialog, vaults>>

\* the request comes back with an error
StoreListError(op) ==
    /\ op.phase = "sent"
    /\ net' = (net \ {op}) \cup {[op EXCEPT !.phase = "err"]}
    /\ UNCHANGED <<build, user, now, store, lvault, card, notified, cycle, dialog,
                   vaults, password_vaults>>

\* the handlers after the await: setVaults([data, ...vaults]),
\* setVaults(vaults.map(...)), setVaults(vaults.filter(...)), or the error toast
setVaultsAfterAwait(s, op) ==
    /\ op.from = s /\ op.phase \in {"ok", "err"}
    /\ vaults' = [vaults EXCEPT ![s] =
                    IF op.phase = "err" THEN @
                    ELSE CASE op.kind = "insert" -> <<op.vault>> \o op.vaults
                           [] op.kind = "update" -> mapVault(op.vaults, op.vault)
                           [] OTHER -> filterVault(op.vaults, op.id)]
    /\ net' = net \ {op}
    /\ UNCHANGED <<build, user, now, store, lvault, card, notified, cycle, dialog,
                   password_vaults>>

InitMany == InitList /\ build = "props"

NextMany ==
    \/ handleVaultCreatedAwait("s1")
    \/ \E i \in 1..MaxVaults : handleVaultUpdatedAwait("s1", i)
    \/ \E i \in 1..MaxVaults : handleVaultDeletedAwait("s1", i)
    \/ \E op \in net : StoreList(op)
    \/ \E op \in net : StoreListError(op)
    \/ \E op \in net : setVaultsAfterAwait("s1", op)

SpecMany == InitMany /\ [][NextMany]_vars

-----------------------------------------------------------------------------
\* Progress: no hide, no delete, and every request to the store succeeds.
\* The tab of s2 stays open: its interval fires (setInterval(..., 1000)),
\* its change notifications start a refetch and its awaits resume.  The store
\* answers every request and time passes.  The tab of s1 may be closed at
\* any moment, so nothing is promised about what s1 does.

\* the clock of the model runs long enough for the request that is made now
InTime == now + DelaySeconds * TicksPerSecond <= MaxTime

NextLive ==
    \/ Advance
    \/ \E s \in Sessions :
        \/ updateCountdown(s)
        \/ InTime /\ handleRevealRequest(s)
        \/ updateTimer(s)
        \/ InTime /\ handleReveal(s)
        \/ fetchVaults(s)
    \/ \E op \in net :
        \/ StoreUpdate(op)
        \/ StoreSelect(op)
        \/ handleVaultUpdatedDone(op.from, op)
        \/ handleRevealDone(op.from, op)
        \/ fetchVaultsDone(op.from, op)

Resumes(s) ==
    \E op \in net : \/ handleVaultUpdatedDone(s, op)
                    \/ handleRevealDone(s, op)
                    \/ fetchVaultsDone(s, op)

FairLive ==
    /\ WF_vars(Advance)
    /\ WF_vars(updateCountdown("s2"))
    /\ WF_vars(updateTimer("s2"))
    /\ WF_vars(fetchVaults("s2"))
    /\ WF_vars(Resumes("s2"))
    /\ WF_vars(\E op \in net : StoreUpdate(op) \/ StoreSelect(op))

SpecLive == Init /\ [][NextLive]_vars /\ FairLive

Delay == DelaySeconds * TicksPerSecond

Secured(v) == v.present /\ v.reveal_requested_at = Null /\ v.revealed_at = Null

\* the card of session s is in its ready status, where it offers the secret
Readable(s) ==
    /\ lvault[s].present
    /\ IF build = "direct"
       THEN getStatusDirect(lvault[s], isReady[s]) = "Ready"
       ELSE getStatus(lvault[s], timeRemaining[s]) = "revealed"

Quiet == net = {} /\ \A s \in Sessions : ~notified[s]

\* C1: a session offers the secret only if the durable record holds a reveal
\* request and at least the delay has passed since that request.
C1_ReadableOnlyAfterRecordedDelay ==
    \A s \in Sessions :
        (build # "local" /\ Readable(s) /\ store.present) =>
            /\ store.reveal_requested_at # Null
            /\ now >= At(store.reveal_requested_at) + Delay

\* C2: in the store and in every session's copy, revealed_at is set only if
\* reveal_requested_at is set.
C2_RevealedOnlyIfRequested ==
    /\ store.revealed_at # Null => store.reveal_requested_at # Null
    /\ \A s \in Sessions :
          lvault[s].revealed_at # Null => lvault[s].reveal_requested_at # Null

\* C2 witness: the store and a session both hold a revealed record while the
\* other session has been overtaken (it still shows another state).
C2_Witness ==
    /\ store.present /\ store.revealed_at # Null
    /\ \E s, t \in Sessions :
          /\ lvault[s].revealed_at # Null
          /\ lvault[t].present /\ lvault[t].revealed_at = Null

\* C3: when the store applies a tick's mark-revealed write, the delay has
\* passed since the request the durable record holds at that moment.
C3_TickRevealsOnlyAfterDurableDelay ==
    [][\A op \in net :
          (StoreUpdate(op) /\ op.kind = "mark" /\ store.present) =>
              /\ store'.reveal_requested_at # Null
              /\ now >= At(store'.reveal_requested_at) + Delay]_vars

\* C4: a requestReveal that reaches a record which is already Revealing or
\* Revealed changes neither reveal_requested_at nor revealed_at.
C4_RequestOnRequestedIsNoOp ==
    [][\A op \in net :
          (StoreUpdate(op) /\ op.kind = "reveal" /\ store.present
              /\ store.reveal_requested_at # Null) =>
              /\ store'.reveal_requested_at = store.reveal_requested_at
              /\ store'.revealed_at = store.revealed_at]_vars

\* C5: between two hides at most one reveal_requested_at value is durably
\* recorded: a recorded request is never replaced by another one.
C5_OneRequestPerCycle ==
    [][(build # "local" /\ store.present /\ store'.present
          /\ store.reveal_requested_at # Null /\ store'.reveal_requested_at # Null) =>
          store'.reveal_requested_at = store.reveal_requested_at]_vars

\* C6: once the sessions have requested the reveal and all requests,
\* responses and notifications have been handled, every session's copy
\* holds the store's reveal_requested_at.
C6_SessionsConverge ==
    (/\ build # "local" /\ Quiet
     /\ Revealing(store)
     /\ \A s \in Sessions : Revealing(lvault[s])) =>
        \A s \in Sessions : lvault[s].reveal_requested_at = store.reveal_requested_at

\* C7: with one session alone, revealed_at, once written, keeps its value
\* until the next hide.
C7_RevealedAtWrittenOnce ==
    [][(store.present /\ store'.present
          /\ store.revealed_at # Null /\ store'.revealed_at # Null) =>
          store'.revealed_at = store.revealed_at]_vars

\* C8: a mark-revealed write that reaches a record whose revealed_at is
\* already set is a no-op: revealed_at keeps the first accepted value.
C8_LaterMarkIsNoOp ==
    [][\A op \in net :
          (StoreUpdate(op) /\ op.kind = "mark" /\ store.present
              /\ store.revealed_at # Null) =>
              store'.revealed_at = store.revealed_at]_vars

\* C9: a hide clears both timestamps: the store's record is Secured when the
\* store has applied it, and the session's copy is Secured, with the card in
\* its waiting status, when the session has handled the store's answer.
C9_HideClearsBoth ==
    [][/\ \A op \in net :
            /\ (StoreUpdate(op) /\ op.kind = "hide" /\ store.present) => Secured(store')
            /\ (handleVaultUpdatedDone(op.from, op) /\ op.kind = "hide") =>
                  /\ Secured(lvault'[op.from])
                  /\ getStatus(lvault'[op.from], timeRemaining'[op.from]) = "waiting"
       /\ \A s \in Sessions :
            (build = "local" /\ handleHidePassword(s)) =>
                  /\ Secured(store') /\ Secured(lvault'[s])
                  /\ getStatus(lvault'[s], timeRemaining'[s]) = "waiting"]_vars

\* C9 witness: the store has applied a hide to a Revealed record, the session
\* that asked for it has handled the answer, and its card, which had counted
\* down to zero, is back in its waiting status.
C9_Witness ==
    /\ build = "props" /\ now >= Delay
    /\ cycle.afterHide /\ Secured(store) /\ net = {}
    /\ \E s, t \in Sessions :
          /\ Secured(lvault[s]) /\ getStatus(lvault[s], timeRemaining[s]) = "waiting"
          /\ lvault[t].reveal_requested_at # Null

\* C10: after a hide, a reveal request stamped t does not lead to a Revealed
\* record before t + delay.
C10_RearmRestartsCountdown ==
    (/\ build # "local" /\ cycle.afterHide /\ cycle.requested # Null
     /\ store.present /\ store.revealed_at # Null) =>
        now >= At(cycle.requested) + Delay

\* C11: what a tick computes for a Revealing vault is
\* max(0, delaySeconds - floor(now - revealRequestedAt)), and the card is
\* ready exactly when that is 0.
SecondsRemaining(v, t) ==
    LET elapsed == (t - At(v.reveal_requested_at)) \div TicksPerSecond
    IN  IF v.delay_seconds - elapsed > 0 THEN v.delay_seconds - elapsed ELSE 0

C11_CountdownFormula ==
    [][\A s \in Sessions :
         /\ updateCountdown(s) =>
              /\ timeRemaining'[s] = Stamp(SecondsRemaining(lvault[s], now))
              /\ (getStatus(lvault'[s], timeRemaining'[s]) = "revealed")
                    <=> (SecondsRemaining(lvault[s], now) = 0)
         /\ updateTimer(s) =>
              /\ timeRemaining'[s] = Stamp(SecondsRemaining(lvault[s], now))
              /\ isReady'[s] <=> (SecondsRemaining(lvault[s], now) = 0)]_vars

\* C11 witness: a vault of delay 5, three seconds after its request, shows
\* (2, not ready)
C11_Witness ==
    \E s \in Sessions :
        /\ Revealing(lvault[s]) /\ lvault[s].delay_seconds = 5
        /\ now > 0
        /\ now = At(lvault[s].reveal_requested_at) + 3 * TicksPerSecond
        /\ timeRemaining[s] = Stamp(2)
        /\ ~isReady[s]
        /\ build = "direct" => getStatusDirect(lvault[s], isReady[s]) = "Revealing"
        /\ build # "direct" => getStatus(lvault[s], timeRemaining[s]) = "counting"

\* C12: for a vault whose revealedAt is set the card is ready and holds no
\* remaining time other than 0, whatever the clock says.
C12_RevealedIsReadyAtZero ==
    \A s \in Sessions :
        (lvault[s].present /\ lvault[s].revealed_at # Null) =>
            /\ timeRemaining[s] # Null => At(timeRemaining[s]) = 0
            /\ build = "direct" => isReady[s]
            /\ build # "direct" => getStatus(lvault[s], timeRemaining[s]) = "revealed"

\* the status a session's card shows
shownStatus(s) ==
    IF build = "direct" THEN getStatusDirect(lvault[s], isReady[s])
    ELSE getStatus(lvault[s], timeRemaining[s])

\* C13: the status a session shows is a function of its vault record and the
\* clock alone: a step that changes neither does not change the status.
C13_StatusIsFunctionOfRecordAndClock ==
    [][\A s \in Sessions :
         (lvault[s].present /\ lvault'[s] = lvault[s] /\ now' = now) =>
             shownStatus(s)' = shownStatus(s)]_vars

\* the create command of session s is submitted in this step
Submits(s) == handleSubmit(s) \/ handleSubmitDirect(s)

\* the dialog turned the command down
Rejected(s) == dialog'[s].toast \in {"form invalid", "Missing fields", "Invalid delay"}

C15_InRangeDelayAccepted ==
    [][\A s \in Sessions :
         (/\ Submits(s)
          /\ trim(dialog[s].title) # << >> /\ trim(dialog[s].password) # << >>
          /\ delayOf(dialog[s]) >= 1 /\ delayOf(dialog[s]) <= 1576800000) =>
             dialog'[s].toast # "Invalid delay"]_vars

\* C16: no vault with an empty title or an empty secret exists, in the store
\* or in a session's collection.
C16_NoEmptyTitleOrSecret ==
    /\ store.present => (store.title # << >> /\ store.encrypted_password # << >>)
    /\ \A s \in Sessions :
         lvault[s].present =>
            (lvault[s].title # << >> /\ lvault[s].encrypted_password # << >>)

\* C17: once a session's collection has lost the vault to a delete, no later
\* step of that session, such as the completion of a request that was in
\* flight, puts the vault back.
C17_DeletedStaysDeleted ==
    [][\A s \in Sessions :
         (~lvault[s].present /\ ~store.present) => ~lvault'[s].present]_vars

\* session d clicked Delete on a card it showed as Revealing and the request
\* is still on its way (the card's record cannot change in between)
DeleteIssued(d) ==
    /\ Revealing(lvault[d])
    /\ \E op \in net : op.from = d /\ op.kind = "delete" /\ op.phase = "sent"

\* C18: once a delete of a Revealing vault has been issued, no session's
\* interval callback runs for it any more.
C18_NoTickAfterDelete ==
    [][\A s \in Sessions :
         (\E d \in Sessions : DeleteIssued(d))
             => ~(updateCountdown(s) \/ updateTimer(s))]_vars

\* C19: the interval callback never runs for a card that is not Revealing, nor
\* for one whose countdown was already seen to have reached zero.
C19_NoTickAfterElapsed ==
    [][\A s \in Sessions :
         (updateCountdown(s) \/ updateTimer(s))
             => /\ Revealing(lvault[s])
                /\ timeRemaining[s] # Stamp(0)]_vars

\* C20: when the Dashboard is told that a reveal request, a hide or a
\* tick-driven reveal failed, the card still holds the vault and shows the
\* status it showed before the command.
C20_FailedWriteLeavesViewUnchanged ==
    [][\A op \in net :
         (handleStoreError(op.from, op) /\ op.kind \in {"reveal", "hide", "mark"})
             => /\ lvault'[op.from].present
                /\ getStatus(lvault'[op.from], timeRemaining'[op.from]) = op.before]_vars

\* the dialog of session s has told the user that the vault was created
ReportsCreated(s) == dialog[s].toast \in {"Vault created!", "Vault created"}

\* C21: a session is told that its vault was created, or holds the new vault
\* in its collection, only if the store holds the vault.
C21_CreatedOnlyIfPersisted ==
    \A s \in Sessions : (ReportsCreated(s) \/ lvault[s].present) => store.present

\* C22: an interval callback that recomputes the status and countdown the
\* card already shows asks the store for nothing.
C22_SameTupleEmitsNothing ==
    [][\A s \in Sessions :
         ( /\ updateCountdown(s) \/ updateTimer(s)
           /\ shownStatus(s)' = shownStatus(s)
           /\ timeRemaining'[s] = timeRemaining[s] )
             => net' = net /\ store' = store]_vars

\* C23: when a refetch completes and the session has no notification left to
\* handle and nothing on its way, its copy is the store's record.
C23_RefetchLeavesStoreRecord ==
    [][\A op \in net :
         ( /\ fetchVaultsDone(op.from, op)
           /\ op.phase = "ok"
           /\ ~notified'[op.from]
           /\ net' = {} )
             => lvault'[op.from] = store']_vars

\* session s shows what a render of its record at the present time shows
ViewCurrent(s) ==
    /\ lvault[s].present
    /\ timeRemaining[s] = timerTime(lvault[s], timeRemaining[s], now)
    /\ isReady[s] = timerReady(lvault[s], isReady[s], now)

\* C24: a refetch that brings the record the session already holds and
\* shows leaves its collection and statuses as they are and sends no write.
C24_DuplicateNotificationIsNoOp ==
    [][\A op \in net :
         ( /\ fetchVaultsDone(op.from, op)
           /\ op.phase = "ok"
           /\ op.data = lvault[op.from]
           /\ ViewCurrent(op.from) )
             => /\ lvault'[op.from] = lvault[op.from]
                /\ shownStatus(op.from)' = shownStatus(op.from)
                /\ timeRemaining'[op.from] = timeRemaining[op.from]
                /\ net' \subseteq net]_vars

\* vaults of equal created_at that are in both lists stand in the same order
tiesKeepOrder(old, new) ==
    \A i, j \in DOMAIN old : \A k, l \in DOMAIN new :
        ( /\ i < j
          /\ old[i].created_at = old[j].created_at
          /\ new[k].id = old[i].id
          /\ new[l].id = old[j].id )
            => k < l

\* C25: every list a session shows is ordered by created_at, newest first,
\* and vaults of equal created_at keep their order from one list to the next.
C25_NewestFirstStable ==
    [][\A s \in Sessions :
         /\ descending(vaults'[s])
         /\ tiesKeepOrder(vaults[s], vaults'[s])]_vars

NotOwner(s) == user[s] # user_id

\* what the store answers to a write that finds no row
AnswerWhenMissing(op) ==
    Reply(op, "ok", IF op.kind = "delete" THEN NoVault ELSE op.data)

\* C26: a reveal request, tick-reveal, hide or delete sent by a user who does
\* not own the vault leaves the row as it is, notifies nobody, and is
\* answered as a write to a row that does not exist.
C26_NotOwnerFailsClosed ==
    [][\A op \in net :
         ((StoreUpdate(op) \/ StoreDelete(op)) /\ NotOwner(op.from))
             => /\ store' = store
                /\ notified' = notified
                /\ net' = AnswerWhenMissing(op)]_vars

C26_Witness ==
    /\ NotOwner("s2")
    /\ Revealing(lvault["s2"])
    /\ store = Vault(Null, Null)
    /\ ~cycle.afterHide
    /\ net = {}

\* the fields of a vault that are given when it is created
Given(v) == <<v.title, v.encrypted_password, v.delay_seconds>>

\* C27: as long as the vault exists, no step changes its title, secret or
\* delay, neither in the store nor in a session's copy.
C27_GivenFieldsNeverChange ==
    [][/\ (store.present /\ store'.present) => Given(store') = Given(store)
       /\ \A s \in Sessions :
            (lvault[s].present /\ lvault'[s].present)
                => Given(lvault'[s]) = Given(lvault[s])]_vars

C27_Witness ==
    /\ store.present
    /\ store.title = <<"a">>
    /\ store.delay_seconds = 1
    /\ cycle.afterHide
    /\ store.reveal_requested_at # Null
    /\ lvault["s1"] = store

\* C28: when the Dashboard learns the outcome of a reveal request, tick-reveal
\* or hide that found no row in the store, the vault leaves the session's
\* collection.
C28_MissingVaultIsPurged ==
    [][\A op \in net :
         ( /\ handleVaultUpdatedDone(op.from, op) \/ handleRevealDone(op.from, op)
           /\ op.phase = "ok"
           /\ user[op.from] = user_id
           /\ ~op.found )
             => ~lvault'[op.from].present]_vars

Tick(s) == updateCountdown(s) \/ updateTimer(s)

\* C30: an interval callback that finds seconds remaining changes no record
\* and sends nothing to the store; one that finds none asks for revealed_at
\* and nothing else.
C30_TickWritesOnlyWhenReady ==
    [][\A s \in Sessions :
         Tick(s) =>
            IF SecondsRemaining(lvault[s], now) > 0
            THEN store' = store /\ lvault' = lvault /\ net' = net
            ELSE /\ Revealing(lvault[s])
                 /\ store' \in {store, [store EXCEPT !.revealed_at = Stamp(now)]}
                 /\ \A op \in net' \ net :
                        /\ op.kind = "mark"
                        /\ op.revealed_at = Stamp(now)
                        /\ op.reveal_requested_at \in {Null, lvault[s].reveal_requested_at}]_vars

C30_Witness ==
    \E s \in Sessions :
        /\ Revealing(lvault[s])
        /\ lvault[s].delay_seconds = 3
        /\ now = At(lvault[s].reveal_requested_at) + 2 * TicksPerSecond
        /\ now > 0
        /\ timeRemaining[s] = Stamp(1)
        /\ store = lvault[s]
        /\ net = {}

\* C31: once a hide has been applied to the store's record, the record leaves
\* Secured again only when the store applies a reveal request: a tick's
\* mark-revealed write that was sent before the hide and arrives after it
\* neither restores reveal_requested_at nor sets revealed_at.
C31_SecuredAfterHideUntilRequest ==
    [][\A op \in net :
          (/\ StoreUpdate(op) /\ build # "local"
           /\ cycle.afterHide /\ Secured(store) /\ ~Secured(store')) =>
              op.kind = "reveal"]_vars

\* the record a list holds for an id (no element when it holds none)
recordOf(list, id) == {list[i] : i \in {j \in DOMAIN list : list[j].id = id}}

\* C32: when a handler of one vault completes after its await, the records
\* the session's list holds for all other vaults are what they were before:
\* none is changed, reverted, dropped or brought back.
C32_OtherVaultsUntouched ==
    [][\A op \in net :
          setVaultsAfterAwait(op.from, op) =>
              \A id \in heldIds \ {op.id, op.vault.id} :
                      recordOf(vaults'[op.from], id) = recordOf(vaults[op.from], id)]_vars

\* the delay of the store's record has passed
Due == Revealing(store) /\ SecondsRemaining(store, now) = 0

\* C33: a Revealing vault whose delay has passed and that an open session
\* holds in its list, with no hide, no delete and no failing request, is
\* eventually Revealed: revealed_at is set in the store and in the copy of
\* that session.
C33_DueVaultBecomesRevealed ==
    (build # "local" /\ Due /\ lvault["s2"].present) ~>
        (store.revealed_at # Null /\ lvault["s2"].revealed_at # Null)

\* C34: the seconds remaining that an interval callback computes for a
\* Revealing vault are between 0 and the vault's delay_seconds, also when the
\* request carries a stamp that is later than the session's own clock.
C34_RemainingWithinDelay ==
    [][\A s \in Sessions :
          (Tick(s) /\ build # "local") =>
              /\ 0 <= At(timeRemaining'[s])
              /\ At(timeRemaining'[s]) <= lvault[s].delay_seconds]_vars

\* C35: a vault that has just been created is Secured, whatever title, secret
\* and delay were given: when the store takes the new row, and when a
\* session puts the new vault into its collection, reveal_requested_at and
\* revealed_at are both unset.
C35_CreatedVaultIsSecured ==
    [][/\ ~store.present /\ store'.present => Secured(store')
       /\ \A s \in Sessions :
            (~lvault[s].present /\ lvault'[s].present) => Secured(lvault'[s])]_vars

\* C35 witness: the dialog was submitted with a delay of 50 of its unit, the
\* store holds the new row, the session holds the new vault and has been told
\* so, and both are Secured
C35_Witness ==
    /\ build = "props" /\ net = {}
    /\ Secured(store) /\ lvault["s1"] = store
    /\ store.delay_seconds >= 50
    /\ store.title = <<"a">>
    /\ ReportsCreated("s1")

\* what the client takes for ready: revealed_at is set, or the request is set
\* and the seconds remaining it computes are 0
clientReady(v, t) ==
    v.revealed_at # Null \/ (v.reveal_requested_at # Null /\ remaining(v, t) = 0)

\* C36: for every record of the vault, in the store or in a session, and
\* every clock reading, is_password_ready gives the verdict of the client:
\* true exactly when revealed_at is set or the request is set and the
\* client's seconds remaining are 0; and an interval callback leaves 0
\* seconds remaining exactly when is_password_ready is true of its record.
C36_ServerAgreesWithClient ==
    [][/\ \A v \in {store} \cup {lvault[s] : s \in Sessions} :
            v.present =>
               /\ passwordReady(v, now) <=> clientReady(v, now)
               /\ v.reveal_requested_at = Null => ~passwordReady(v, now)
       /\ \A s \in Sessions :
            /\ updateCountdown(s) =>
                  (passwordReady(lvault[s], now)
                      <=> getStatus(lvault[s], timeRemaining'[s]) = "revealed")
            /\ updateTimer(s) => (passwordReady(lvault[s], now) <=> isReady'[s])]_vars

\* C36 witness: a vault of delay 2 or more at the instant its delay ends; the
\* interval callback has computed 0 seconds remaining from the session's
\* Revealing record and is_password_ready is true of that record
C36_Witness ==
    \E s \in Sessions :
        /\ Revealing(lvault[s]) /\ lvault[s].delay_seconds >= 2
        /\ now > 0
        /\ now = At(lvault[s].reveal_requested_at) + lvault[s].delay_seconds * TicksPerSecond
        /\ timeRemaining[s] = Stamp(0)
        /\ passwordReady(lvault[s], now)
        /\ ~passwordReady(lvault[s], now - 1)

\* C37: is_password_ready is FALSE for every id that has no row and for every
\* caller who does not own the row, whatever the timestamps of the row are;
\* a caller gets the same answer for another user's vault as for an id that
\* does not exist.
C37_NotReadyForOthers ==
    \A s \in Sessions, id \in VaultIds :
        (~store.present \/ id # vault_id \/ user[s] # user_id) =>
            /\ ~is_password_ready(id, user[s], now)
            /\ is_password_ready(id, user[s], now)
                 = is_password_ready("v2", user[s], now)

\* C37 witness: the vault is Revealed, its owner s1 is told that it is ready,
\* and s2, who is signed in as another user, is told that it is not
C37_Witness ==
    /\ store.present /\ store.revealed_at # Null
    /\ user["s1"] = user_id /\ user["s2"] # user_id
    /\ is_password_ready(vault_id, user["s1"], now)
    /\ ~is_password_ready(vault_id, user["s2"], now)

\* C38: every delay that the create dialog lets through, for every text of
\* the delay field and every unit, is an integer between 1 and 1576800000
\* when it reaches the store, and the store takes the row.
C38_AcceptedDelayFitsStore ==
    [][\A op \in net :
          StoreInsertOfJson(op) =>
              /\ op.data.delay_seconds # NaN
              /\ op.data.delay_seconds[1] >= 1
              /\ op.data.delay_seconds[1] <= 1576800000
              /\ store'.present]_vars

=============================================================================
